---- MODULE Spec2Model ----
(***************************************************************************)
(* Model of package soup (src/main.go): selector resolution over a parsed  *)
(* HTML tree.  The tree is the html.Node structure the package reads       *)
(* (Type, Data, Attr, FirstChild, NextSibling); every exported function is *)
(* a pure read of that tree, so a behaviour is: a tree and the arguments   *)
(* of one call are drawn (pc = "ready"), the call runs and leaves its      *)
(* return value (pc = "done").                                             *)
(*                                                                         *)
(* Go strings are sequences of one-character strings, so that Split and    *)
(* Trim are computed character by character.  Attribute keys are compared  *)
(* whole by the code and are plain strings.                                *)
(***************************************************************************)
EXTENDS Integers, Sequences, FiniteSets

VARIABLES
    Type,          \* html.Node.Type of every node
    Data,          \* html.Node.Data: tag name of an element, text of a text node
    nodeAttr,      \* html.Node.Attr: ordered list of [Key, Val]
    FirstChild,    \* html.Node.FirstChild
    NextSibling,   \* html.Node.NextSibling
    pc,            \* "ready" before the call, "done" after it
    op,            \* the function called
    node,          \* argument: the node the function is called on
    selector,      \* argument: the Selector (SelectFirst, SelectAll)
    name,          \* argument: id, className, tagName or attr value string
    retNode,       \* result of a *html.Node function (NULL is nil)
    retNodes,      \* result of a []*html.Node function
    retBool,       \* result of HasClass
    retStr         \* result of TextContent

tree == <<Type, Data, nodeAttr, FirstChild, NextSibling>>
args == <<node, selector, name>>
rets == <<retNode, retNodes, retBool, retStr>>
vars == <<Type, Data, nodeAttr, FirstChild, NextSibling, pc, op, node, selector,
          name, retNode, retNodes, retBool, retStr>>

\* the nil *html.Node
NULL == 0

Nodes == DOMAIN Type

Range(s) == {s[i] : i \in DOMAIN s}

Min(S) == CHOOSE x \in S : \A y \in S : x <= y

Max(S) == CHOOSE x \in S : \A y \in S : x >= y

\* the Go string literal "" and the strings of at most n characters over cs
EmptyString == <<>>

RECURSIVE Strings(_, _)
Strings(cs, n) ==
    IF n = 0 THEN {EmptyString}
    ELSE LET shorter == Strings(cs, n - 1)
         IN  shorter \cup {Append(s, c) : s \in shorter, c \in cs}

-----------------------------------------------------------------------------
(* Bounds *)

\* nodes of a tree in the dispatch and tag/class family specifications
TreeNodes == 4
\* nodes of a tree in the by-id specification
IdNodes == 6
\* longest text of a text node
MaxTextLen == 2
\* longest value of a class attribute
MaxClassLen == 3
\* longest className argument
MaxNameLen == 2

-----------------------------------------------------------------------------
(* strings package *)

\* strings.Split(s, sep), sep not empty
RECURSIVE Split(_, _)
Split(s, sep) ==
    LET at == {i \in 1..(Len(s) - Len(sep) + 1) : SubSeq(s, i, i + Len(sep) - 1) = sep}
    IN  IF at = {} THEN <<s>>
        ELSE <<SubSeq(s, 1, Min(at) - 1)>> \o Split(SubSeq(s, Min(at) + Len(sep), Len(s)), sep)

\* strings.Trim(s, cutset): s without its leading and trailing characters of cutset
Trim(s, cutset) ==
    LET keep == {i \in 1..Len(s) : s[i] \notin Range(cutset)}
    IN  IF keep = {} THEN EmptyString ELSE SubSeq(s, Min(keep), Max(keep))

-----------------------------------------------------------------------------
(* html.Node *)

\* for c := node.FirstChild; c != nil; c = c.NextSibling: the nodes c takes
RECURSIVE SiblingsFrom(_)
SiblingsFrom(c) == IF c = NULL THEN <<>> ELSE <<c>> \o SiblingsFrom(NextSibling[c])

Children(n) == SiblingsFrom(FirstChild[n])

-----------------------------------------------------------------------------
(* Attribute, class and text utilities *)

Attr(n, attr) ==
    LET at == {i \in DOMAIN nodeAttr[n] : nodeAttr[n][i].Key = attr}
    IN  IF at # {} THEN nodeAttr[n][Min(at)].Val ELSE EmptyString

HasClass_AnyToken(n, className) ==
    className \in Range(Split(Attr(n, "class"), <<" ">>))

HasClass(n, className) ==
    LET at == {i \in DOMAIN nodeAttr[n] : nodeAttr[n][i].Key = "class"}
    IN  IF at # {}
        THEN \E class \in Range(Split(nodeAttr[n][Min(at)].Val, <<" ">>)) : class = className
        ELSE FALSE

TextContent_FirstChildOnly(n) ==
    IF Type[n] = "TextNode" THEN Trim(Data[n], <<" ", "\t", "\n", "\r">>)
    ELSE IF FirstChild[n] # NULL /\ Type[FirstChild[n]] = "TextNode"
         THEN Trim(Data[FirstChild[n]], <<" ", "\t", "\n", "\n">>)
         ELSE EmptyString

TextContent(n) ==
    IF Type[n] = "TextNode" THEN Trim(Data[n], <<" ", "\t", "\n", "\r">>)
    ELSE LET cs == Children(n)
             at == {i \in DOMAIN cs : Type[cs[i]] = "TextNode"}
         IN  IF at # {} THEN Trim(Data[cs[Min(at)]], <<" ", "\t", "\n", "\n">>)
             ELSE EmptyString

-----------------------------------------------------------------------------
(* By-id traversal *)

RECURSIVE firstWithId_LastChild(_, _, _)
firstWithId_LastChild(n, id, recursive) ==
    LET cs  == Children(n)
        hit == {i \in DOMAIN cs : Type[cs[i]] = "ElementNode" /\ Attr(cs[i], "id") = id}
    IN  IF hit # {} THEN cs[Max(hit)]
        ELSE IF ~recursive THEN NULL
        ELSE LET el  == [i \in DOMAIN cs |->
                            IF Type[cs[i]] = "ElementNode"
                            THEN firstWithId_LastChild(cs[i], id, TRUE) ELSE NULL]
                 got == {i \in DOMAIN cs : el[i] # NULL}
             IN  IF got # {} THEN el[Min(got)] ELSE NULL

RECURSIVE firstWithId(_, _, _)
firstWithId(n, id, recursive) ==
    LET cs  == Children(n)
        hit == {i \in DOMAIN cs : Type[cs[i]] = "ElementNode" /\ Attr(cs[i], "id") = id}
    IN  IF hit # {} THEN cs[Min(hit)]
        ELSE IF ~recursive THEN NULL
        ELSE LET el  == [i \in DOMAIN cs |->
                            IF Type[cs[i]] = "ElementNode"
                            THEN firstWithId(cs[i], id, TRUE) ELSE NULL]
                 got == {i \in DOMAIN cs : el[i] # NULL}
             IN  IF got # {} THEN el[Min(got)] ELSE NULL

FirstWithId(n, id) == firstWithId(n, id, FALSE)

FirstWithIdR(n, id) == firstWithId(n, id, TRUE)

-----------------------------------------------------------------------------
(* By-class traversal *)

RECURSIVE firstWithClassName(_, _, _)
firstWithClassName(n, className, recursive) ==
    LET cs  == Children(n)
        hit == {i \in DOMAIN cs : HasClass(cs[i], className)}
    IN  IF hit # {} THEN cs[Min(hit)]
        ELSE IF ~recursive THEN NULL
        ELSE LET el  == [i \in DOMAIN cs |-> firstWithClassName(cs[i], className, TRUE)]
                 got == {i \in DOMAIN cs : el[i] # NULL}
             IN  IF got # {} THEN el[Min(got)] ELSE NULL

FirstWithClassName(n, className) == firstWithClassName(n, className, FALSE)

FirstWithClassNameR(n, className) == firstWithClassName(n, className, TRUE)

\* res = append(res, f(c)...) for every c of cs from position i on
RECURSIVE Concat(_, _)
Concat(parts, i) == IF i > Len(parts) THEN <<>> ELSE parts[i] \o Concat(parts, i + 1)

RECURSIVE allWithClassName_ChildrenOnly(_, _, _)
allWithClassName_ChildrenOnly(n, className, recursive) ==
    LET cs == Children(n)
    IN  Concat([i \in DOMAIN cs |->
                   (IF HasClass(cs[i], className) THEN <<cs[i]>> ELSE <<>>)
                   \o (IF recursive
                       THEN allWithClassName_ChildrenOnly(cs[i], className, TRUE)
                       ELSE <<>>)], 1)

RECURSIVE allWithClassName(_, _, _)
allWithClassName(n, className, recursive) ==
    LET res == IF HasClass(n, className) THEN <<n>> ELSE <<>>
        cs  == Children(n)
    IN  IF ~recursive THEN res
        ELSE res \o Concat([i \in DOMAIN cs |-> allWithClassName(cs[i], className, TRUE)], 1)

AllWithClassName(n, className) == allWithClassName(n, className, FALSE)

AllWithClassNameR(n, className) == allWithClassName(n, className, TRUE)

-----------------------------------------------------------------------------
(* By-tag traversal *)

firstWithTag_Shallow(n, tagName, recursive) ==
    LET cs  == Children(n)
        hit == {i \in DOMAIN cs : Type[cs[i]] = "ElementNode" /\ Data[cs[i]] = tagName}
    IN  IF hit # {} THEN cs[Min(hit)] ELSE NULL

RECURSIVE firstWithTag(_, _, _)
firstWithTag(n, tagName, recursive) ==
    LET cs  == Children(n)
        hit == {i \in DOMAIN cs : Type[cs[i]] = "ElementNode" /\ Data[cs[i]] = tagName}
    IN  IF hit # {} THEN cs[Min(hit)]
        ELSE IF ~recursive THEN NULL
        ELSE LET el  == [i \in DOMAIN cs |-> firstWithTag(cs[i], tagName, TRUE)]
                 got == {i \in DOMAIN cs : el[i] # NULL}
             IN  IF got # {} THEN el[Min(got)] ELSE NULL

FirstWithTag(n, tagName) == firstWithTag(n, tagName, FALSE)

FirstWithTagR(n, tagName) == firstWithTag(n, tagName, TRUE)

RECURSIVE allWithTag_ChildrenLast(_, _, _)
allWithTag_ChildrenLast(n, tagName, recursive) ==
    LET cs == Children(n)
    IN  Concat([i \in DOMAIN cs |->
                   (IF recursive THEN allWithTag_ChildrenLast(cs[i], tagName, TRUE) ELSE <<>>)
                   \o (IF Type[cs[i]] = "ElementNode" /\ Data[cs[i]] = tagName
                       THEN <<cs[i]>> ELSE <<>>)], 1)

RECURSIVE allWithTag(_, _, _)
allWithTag(n, tagName, recursive) ==
    LET cs == Children(n)
    IN  Concat([i \in DOMAIN cs |->
                   (IF Type[cs[i]] = "ElementNode" /\ Data[cs[i]] = tagName
                    THEN <<cs[i]>> ELSE <<>>)
                   \o (IF recursive THEN allWithTag(cs[i], tagName, TRUE) ELSE <<>>)], 1)

AllWithTag(n, tagName) == allWithTag(n, tagName, FALSE)

AllWithTagR(n, tagName) == allWithTag(n, tagName, TRUE)

-----------------------------------------------------------------------------
(* Criterion dispatch *)

SelectAll_EmptyOnMiss(n, sel) ==
    IF Len(sel.Id) > 0
    THEN LET found == firstWithId(n, sel.Id, sel.Recursive)
         IN  IF found = NULL THEN <<>> ELSE <<found>>
    ELSE IF Len(sel.ClassName) > 0 THEN allWithClassName(n, sel.ClassName, sel.Recursive)
    ELSE IF Len(sel.Tag) > 0 THEN allWithTag(n, sel.Tag, sel.Recursive)
    ELSE <<>>

\* a nil slice and an empty slice are both the empty sequence
SelectAll(n, sel) ==
    IF Len(sel.Id) > 0
    THEN LET found == firstWithId(n, sel.Id, sel.Recursive)
         IN  IF found = NULL THEN <<found>> ELSE <<>>
    ELSE IF Len(sel.ClassName) > 0 THEN allWithClassName(n, sel.ClassName, sel.Recursive)
    ELSE IF Len(sel.Tag) > 0 THEN allWithTag(n, sel.Tag, sel.Recursive)
    ELSE <<>>

SelectFirst_TagFirst(n, sel) ==
    IF Len(sel.Tag) > 0 THEN firstWithTag(n, sel.Tag, sel.Recursive)
    ELSE IF Len(sel.ClassName) > 0 THEN firstWithClassName(n, sel.ClassName, sel.Recursive)
    ELSE IF Len(sel.Id) > 0 THEN firstWithId(n, sel.Id, sel.Recursive)
    ELSE NULL

SelectFirst(n, sel) ==
    IF Len(sel.Id) > 0 THEN firstWithId(n, sel.Id, sel.Recursive)
    ELSE IF Len(sel.ClassName) > 0 THEN firstWithClassName(n, sel.ClassName, sel.Recursive)
    ELSE IF Len(sel.Tag) > 0 THEN firstWithTag(n, sel.Tag, sel.Recursive)
    ELSE NULL

-----------------------------------------------------------------------------
(* Trees: what Parse hands out.  Node 1 is the root; nodes are numbered    *)
(* level by level, so that a node's children are in sibling order by       *)
(* number while document order is not the numeric order.  Only the root    *)
(* and element nodes have children.                                        *)

Document == [Type |-> "DocumentNode", Data |-> EmptyString, Attr |-> <<>>]

Element(tag, attrs) == [Type |-> "ElementNode", Data |-> tag, Attr |-> attrs]

Text(data) == [Type |-> "TextNode", Data |-> data, Attr |-> <<>>]

Attribute(key, val) == [Key |-> key, Val |-> val]

\* parent of every node but the root, for the trees of n nodes
Shapes(n) ==
    {p \in [2..n -> 1..(n - 1)] :
        \A i \in 2..n : p[i] < i /\ (i > 2 => p[i - 1] <= p[i])}

\* the labellings of a shape: a root label, and text nodes are leaves
Labellings(p, n, rootLabels, labels) ==
    LET inner  == {i \in 2..n : \E c \in 2..n : p[c] = i}
        leaves == (2..n) \ inner
        branch == {l \in labels : l.Type # "TextNode"}
    IN  {[i \in 1..n |-> IF i = 1 THEN r ELSE IF i \in inner THEN a[i] ELSE b[i]] :
            r \in rootLabels, a \in [inner -> branch], b \in [leaves -> labels]}

IsTree(p, lab, n) ==
    /\ Type = [i \in 1..n |-> lab[i].Type]
    /\ Data = [i \in 1..n |-> lab[i].Data]
    /\ nodeAttr = [i \in 1..n |-> lab[i].Attr]
    /\ FirstChild = [i \in 1..n |->
           LET cs == {c \in 2..n : p[c] = i}
           IN  IF cs = {} THEN NULL ELSE Min(cs)]
    /\ NextSibling = [i \in 1..n |->
           IF i = 1 THEN NULL
           ELSE LET later == {c \in (i + 1)..n : p[c] = p[i]}
                IN  IF later = {} THEN NULL ELSE Min(later)]

NoSelector == [Id |-> EmptyString, ClassName |-> EmptyString, Tag |-> EmptyString,
               Recursive |-> FALSE]

Ready ==
    /\ pc = "ready"
    /\ op = "none"
    /\ retNode = NULL
    /\ retNodes = <<>>
    /\ retBool = FALSE
    /\ retStr = EmptyString

-----------------------------------------------------------------------------
(* Calls *)

Return(f) ==
    /\ pc = "ready"
    /\ pc' = "done"
    /\ op' = f
    /\ UNCHANGED <<tree, args>>

CallSelectFirst ==
    /\ Return("SelectFirst")
    /\ retNode' = SelectFirst(node, selector)
    /\ UNCHANGED <<retNodes, retBool, retStr>>

CallSelectAll ==
    /\ Return("SelectAll")
    /\ retNodes' = SelectAll(node, selector)
    /\ UNCHANGED <<retNode, retBool, retStr>>

CallFirstWithId ==
    /\ Return("FirstWithId")
    /\ retNode' = FirstWithId(node, name)
    /\ UNCHANGED <<retNodes, retBool, retStr>>

CallFirstWithIdR ==
    /\ Return("FirstWithIdR")
    /\ retNode' = FirstWithIdR(node, name)
    /\ UNCHANGED <<retNodes, retBool, retStr>>

CallFirstWithClassName ==
    /\ Return("FirstWithClassName")
    /\ retNode' = FirstWithClassName(node, name)
    /\ UNCHANGED <<retNodes, retBool, retStr>>

CallFirstWithClassNameR ==
    /\ Return("FirstWithClassNameR")
    /\ retNode' = FirstWithClassNameR(node, name)
    /\ UNCHANGED <<retNodes, retBool, retStr>>

CallAllWithClassName ==
    /\ Return("AllWithClassName")
    /\ retNodes' = AllWithClassName(node, name)
    /\ UNCHANGED <<retNode, retBool, retStr>>

CallAllWithClassNameR ==
    /\ Return("AllWithClassNameR")
    /\ retNodes' = AllWithClassNameR(node, name)
    /\ UNCHANGED <<retNode, retBool, retStr>>

CallFirstWithTag ==
    /\ Return("FirstWithTag")
    /\ retNode' = FirstWithTag(node, name)
    /\ UNCHANGED <<retNodes, retBool, retStr>>

CallFirstWithTagR ==
    /\ Return("FirstWithTagR")
    /\ retNode' = FirstWithTagR(node, name)
    /\ UNCHANGED <<retNodes, retBool, retStr>>

CallAllWithTag ==
    /\ Return("AllWithTag")
    /\ retNodes' = AllWithTag(node, name)
    /\ UNCHANGED <<retNode, retBool, retStr>>

CallAllWithTagR ==
    /\ Return("AllWithTagR")
    /\ retNodes' = AllWithTagR(node, name)
    /\ UNCHANGED <<retNode, retBool, retStr>>

CallHasClass ==
    /\ Return("HasClass")
    /\ retBool' = HasClass(node, name)
    /\ UNCHANGED <<retNode, retNodes, retStr>>

CallTextContent ==
    /\ Return("TextContent")
    /\ retStr' = TextContent(node)
    /\ UNCHANGED <<retNode, retNodes, retBool>>

-----------------------------------------------------------------------------
(* Specification of the dispatcher: SelectFirst and SelectAll with every   *)
(* combination of populated selector fields.                               *)

SelLabels ==
    { Text(<<"t">>),
      Element(<<"a">>, <<>>),
      Element(<<"a">>, <<Attribute("id", <<"x">>)>>),
      Element(<<"b">>, <<Attribute("class", <<"c">>)>>),
      Element(<<"b">>, <<Attribute("class", <<"d", " ", "c">>), Attribute("id", <<"x">>)>>) }

Selectors ==
    [Id : {EmptyString, <<"x">>}, ClassName : {EmptyString, <<"c">>},
     Tag : {EmptyString, <<"a">>}, Recursive : BOOLEAN]

InitSel ==
    /\ \E p \in Shapes(TreeNodes) :
         \E lab \in Labellings(p, TreeNodes, {Document}, SelLabels) :
            IsTree(p, lab, TreeNodes)
    /\ node \in 1..TreeNodes
    /\ selector \in Selectors
    /\ name = EmptyString
    /\ Ready

NextSel == CallSelectFirst \/ CallSelectAll

SpecSel == InitSel /\ [][NextSel]_vars

-----------------------------------------------------------------------------
(* Specification of the by-id traversal: deeper trees, ids only.           *)

IdLabels ==
    { Text(<<"t">>),
      Element(<<"a">>, <<>>),
      Element(<<"a">>, <<Attribute("id", <<"x">>)>>) }

IdSelectors ==
    [Id : {<<"x">>}, ClassName : {EmptyString}, Tag : {EmptyString}, Recursive : BOOLEAN]

InitId ==
    /\ \E p \in Shapes(IdNodes) :
         \E lab \in Labellings(p, IdNodes, {Document}, IdLabels) :
            IsTree(p, lab, IdNodes)
    /\ node \in 1..IdNodes
    /\ selector \in IdSelectors
    /\ name = <<"x">>
    /\ Ready

NextId == CallSelectFirst \/ CallSelectAll \/ CallFirstWithId \/ CallFirstWithIdR

SpecId == InitId /\ [][NextId]_vars

-----------------------------------------------------------------------------
(* Specification of the by-class and by-tag families, called directly.     *)

FamLabels ==
    { Text(<<"t">>),
      Element(<<"a">>, <<>>),
      Element(<<"b">>, <<>>),
      Element(<<"b">>, <<Attribute("class", <<"a">>)>>),
      Element(<<"a">>, <<Attribute("class", <<"b", " ", "a">>)>>) }

InitFam ==
    /\ \E p \in Shapes(TreeNodes) :
         \E lab \in Labellings(p, TreeNodes, {Document}, FamLabels) :
            IsTree(p, lab, TreeNodes)
    /\ node \in 1..TreeNodes
    /\ selector = NoSelector
    /\ name \in {<<"a">>, <<"b">>}
    /\ Ready

NextFam ==
    \/ CallFirstWithClassName
    \/ CallFirstWithClassNameR
    \/ CallAllWithClassName
    \/ CallAllWithClassNameR
    \/ CallFirstWithTag
    \/ CallFirstWithTagR
    \/ CallAllWithTag
    \/ CallAllWithTagR

SpecFam == InitFam /\ [][NextFam]_vars

-----------------------------------------------------------------------------
(* Specification of HasClass: one element under the document, every        *)
(* attribute list with a class value of at most MaxClassLen characters.    *)

ClassChars == {"a", "b", " "}

ClassVals == Strings(ClassChars, MaxClassLen)

AttrLists ==
    {<<>>, <<Attribute("id", <<"x">>)>>}
    \cup {<<Attribute("class", v)>> : v \in ClassVals}
    \cup {<<Attribute("id", <<"x">>), Attribute("class", v)>> : v \in ClassVals}
    \cup {<<Attribute("class", v), Attribute("id", <<"x">>)>> : v \in ClassVals}
    \cup {<<Attribute("class", v), Attribute("class", <<"a">>)>> : v \in ClassVals}

AttrLabels == {Text(<<"t">>)} \cup {Element(<<"a">>, l) : l \in AttrLists}

InitAttr ==
    /\ \E p \in Shapes(2) :
         \E lab \in Labellings(p, 2, {Document}, AttrLabels) :
            IsTree(p, lab, 2)
    /\ node \in 1..2
    /\ selector = NoSelector
    /\ name \in Strings(ClassChars, MaxNameLen)
    /\ Ready

NextAttr == CallHasClass

SpecAttr == InitAttr /\ [][NextAttr]_vars

-----------------------------------------------------------------------------
(* Specification of TextContent: an element under the document with two    *)
(* children, each an element or a text of at most MaxTextLen characters.   *)

TextChars == {"H", " ", "\t", "\n", "\r"}

TextLabels == {Element(<<"b">>, <<>>)} \cup {Text(d) : d \in Strings(TextChars, MaxTextLen)}

TwoChildren == [i \in 2..4 |-> IF i = 2 THEN 1 ELSE 2]

InitText ==
    /\ \E lab \in Labellings(TwoChildren, 4, {Document}, TextLabels) :
          IsTree(TwoChildren, lab, 4)
    /\ node \in 1..4
    /\ selector = NoSelector
    /\ name = EmptyString
    /\ Ready

NextText == CallTextContent

SpecText == InitText /\ [][NextText]_vars

-----------------------------------------------------------------------------
(* The default specification: every tree and every call above.             *)

Init == InitSel \/ InitId \/ InitFam \/ InitAttr \/ InitText

Next == NextSel \/ NextId \/ NextFam \/ NextAttr \/ NextText

Spec == Init /\ [][Next]_vars

-----------------------------------------------------------------------------
(* Vocabulary of the properties: the tree relations the claims speak of,   *)
(* stated over the links and not by the traversals.                        *)

ChildSet(n) == Range(Children(n))

RECURSIVE Descendants(_)
Descendants(n) == ChildSet(n) \cup UNION {Descendants(c) : c \in ChildSet(n)}

ParentOf(c) == CHOOSE q \in Nodes : c \in ChildSet(q)

\* siblings of a that come before it
EarlierSiblings(a) ==
    {s \in Nodes : a \in Range(SiblingsFrom(NextSibling[s]))}

\* d and its ancestors strictly below n, for d a descendant of n
RECURSIVE PathBelow(_, _)
PathBelow(n, d) == IF d \in ChildSet(n) THEN {d} ELSE {d} \cup PathBelow(n, ParentOf(d))

DepthBelow(n, d) == Cardinality(PathBelow(n, d))

\* document order: an ancestor before its descendants, an earlier sibling's
\* subtree before a later sibling's
Before(a, b) ==
    \/ a \in Nodes /\ b \in Descendants(a)
    \/ \E ca, cb \in Nodes :
          /\ ca \in EarlierSiblings(cb)
          /\ a \in {ca} \cup Descendants(ca)
          /\ b \in {cb} \cup Descendants(cb)

\* the nodes a query on n looks at below n
Scope(n, recursive) == IF recursive THEN Descendants(n) ELSE ChildSet(n)

IdMatches(n, id, recursive) ==
    {d \in Scope(n, recursive) : Type[d] = "ElementNode" /\ Attr(d, "id") = id}

TagMatches(n, tagName, recursive) ==
    {d \in Scope(n, recursive) : Type[d] = "ElementNode" /\ Data[d] = tagName}

\* c is one of the pieces of v between single spaces
IsToken(v, c) ==
    /\ " " \notin Range(c)
    /\ \E k \in 0..(Len(v) - Len(c)) :
          /\ SubSeq(v, k + 1, k + Len(c)) = c
          /\ (k = 0 \/ v[k] = " ")
          /\ (k + Len(c) = Len(v) \/ v[k + Len(c) + 1] = " ")

HasClassAttribute(n) == \E i \in DOMAIN nodeAttr[n] : nodeAttr[n][i].Key = "class"

\* r is s without its leading and trailing characters of ws
IsTrimOf(r, s, ws) ==
    /\ (r # EmptyString => r[1] \notin ws /\ r[Len(r)] \notin ws)
    /\ \E i \in 1..(Len(s) + 1) :
          /\ i + Len(r) - 1 <= Len(s)
          /\ r = SubSeq(s, i, i + Len(r) - 1)
          /\ \A k \in 1..Len(s) : (k < i \/ k > i + Len(r) - 1) => s[k] \in ws

Whitespace == {" ", "\t", "\n", "\r"}

IsInjective(q) == \A i, j \in DOMAIN q : q[i] = q[j] => i = j

SelectorIs(kind) ==
    CASE kind = "id"    -> Len(selector.Id) > 0
      [] kind = "class" -> Len(selector.Id) = 0 /\ Len(selector.ClassName) > 0
      [] kind = "tag"   -> Len(selector.Id) = 0 /\ Len(selector.ClassName) = 0
                           /\ Len(selector.Tag) > 0
      [] kind = "none"  -> Len(selector.Id) = 0 /\ Len(selector.ClassName) = 0
                           /\ Len(selector.Tag) = 0

Done(f) == pc = "done" /\ op = f

-----------------------------------------------------------------------------
(* C1: SelectFirst and SelectAll are decided by the first non-empty field  *)
(* in the order Id, ClassName, Tag: with Id set the result is what the Id  *)
(* alone gives, whatever ClassName and Tag hold; with Id empty and         *)
(* ClassName set it is the by-class result whatever Tag holds; with only   *)
(* Tag set it is the by-tag result; with no field set it is absent         *)
(* (SelectFirst) or empty (SelectAll).                                     *)

IdOnly(sel) == [sel EXCEPT !.ClassName = EmptyString, !.Tag = EmptyString]

C1_Precedence ==
    /\ Done("SelectFirst") =>
          /\ SelectorIs("id") =>
                /\ retNode = firstWithId(node, selector.Id, selector.Recursive)
                /\ retNode = SelectFirst(node, IdOnly(selector))
          /\ SelectorIs("class") =>
                retNode = firstWithClassName(node, selector.ClassName, selector.Recursive)
          /\ SelectorIs("tag") =>
                retNode = firstWithTag(node, selector.Tag, selector.Recursive)
          /\ SelectorIs("none") => retNode = NULL
    /\ Done("SelectAll") =>
          /\ SelectorIs("id") => retNodes = SelectAll(node, IdOnly(selector))
          /\ SelectorIs("class") =>
                retNodes = allWithClassName(node, selector.ClassName, selector.Recursive)
          /\ SelectorIs("tag") =>
                retNodes = allWithTag(node, selector.Tag, selector.Recursive)
          /\ SelectorIs("none") => Len(retNodes) = 0

\* all three fields set, and the three families disagree: the by-id node is returned
C1_Witness ==
    /\ Done("SelectFirst")
    /\ Len(selector.Id) > 0 /\ Len(selector.ClassName) > 0 /\ Len(selector.Tag) > 0
    /\ retNode # NULL
    /\ firstWithClassName(node, selector.ClassName, selector.Recursive) \notin {NULL, retNode}
    /\ firstWithTag(node, selector.Tag, selector.Recursive) \notin {NULL, retNode}

-----------------------------------------------------------------------------
(* C2 as claimed: SelectFirst by a non-empty id returns a node iff some    *)
(* element in scope has that id, and the node returned is at the           *)
(* shallowest depth at which a match occurs and is the first in document   *)
(* order among the matches at that depth.                                  *)

C2_ShallowestFirst ==
    Done("SelectFirst") /\ Len(selector.Id) > 0 =>
        LET M == IdMatches(node, selector.Id, selector.Recursive)
        IN  /\ retNode # NULL <=> M # {}
            /\ retNode # NULL =>
                  /\ retNode \in M
                  /\ \A m \in M :
                        /\ DepthBelow(node, retNode) <= DepthBelow(node, m)
                        /\ (m # retNode /\ DepthBelow(node, m) = DepthBelow(node, retNode))
                              => Before(retNode, m)

(* C2 as amended: SelectFirst by a non-empty id returns a node iff some    *)
(* element in scope has that id; the node returned has that id, no earlier *)
(* sibling of it has, and at each of its ancestors below the queried node  *)
(* no sibling of the ancestor (nor the ancestor) has the id and no earlier *)
(* sibling's subtree holds a match.  It is the first match of a descent    *)
(* that prefers a matching immediate child at every level, which is not    *)
(* always a match of the shallowest depth.                                 *)

C2_FirstWithIdDescent ==
    Done("SelectFirst") /\ Len(selector.Id) > 0 =>
        LET M == IdMatches(node, selector.Id, selector.Recursive)
        IN  /\ retNode # NULL <=> M # {}
            /\ retNode # NULL =>
                  /\ retNode \in M
                  /\ \A a \in PathBelow(node, retNode) :
                        IF a = retNode
                        THEN EarlierSiblings(a) \cap M = {}
                        ELSE /\ ChildSet(ParentOf(a)) \cap M = {}
                             /\ \A s \in EarlierSiblings(a) : Descendants(s) \cap M = {}

\* a recursive query that returns a match deeper than another match
C2_Witness ==
    /\ Done("SelectFirst") /\ Len(selector.Id) > 0 /\ selector.Recursive
    /\ retNode # NULL
    /\ \E m \in IdMatches(node, selector.Id, TRUE) :
          DepthBelow(node, m) < DepthBelow(node, retNode)

-----------------------------------------------------------------------------
(* C3: when the by-id traversal finds an element, SelectAll with that id   *)
(* returns a sequence that contains it, the node SelectFirst returns.      *)

C3_SelectAllHoldsMatch ==
    Done("SelectAll") /\ Len(selector.Id) > 0
        /\ SelectFirst(node, selector) # NULL
    => SelectFirst(node, selector) \in Range(retNodes)

-----------------------------------------------------------------------------
(* C4: SelectAll by a non-empty id that no element in scope has returns    *)
(* the one-element sequence holding the nil node; SelectAll by class name  *)
(* or by tag with no match returns a sequence of length zero.              *)

-----------------------------------------------------------------------------
(* C5: AllWithTagR on a node never holds that node, only nodes strictly    *)
(* below it; AllWithClassName and AllWithClassNameR on a node that has the *)
(* class hold that node as their first element.                            *)

-----------------------------------------------------------------------------
(* C6 as claimed: HasClass(node, c) is true iff Attr(node, "class") split  *)
(* on single spaces contains the token c, for every node and every c.      *)

C6_TokenOfAttr ==
    Done("HasClass") => (retBool <=> IsToken(Attr(node, "class"), name))

(* C6 as amended: HasClass(node, c) is true iff the node has a class       *)
(* attribute and Attr(node, "class") split on single spaces contains the   *)
(* token c; a node without a class attribute has no class, the empty one   *)
(* included.                                                               *)

C6_TokenOfClassAttribute ==
    Done("HasClass") =>
        (retBool <=> HasClassAttribute(node) /\ IsToken(Attr(node, "class"), name))

\* class "ab" does not give class "a"
C6_Witness ==
    /\ Done("HasClass")
    /\ Attr(node, "class") = <<"a", "b">> /\ name = <<"a">>
    /\ ~retBool

-----------------------------------------------------------------------------
(* C7 as claimed: TextContent on an element whose first child is an        *)
(* element and whose second child is a text node returns the empty string. *)

ElementThenText(n) ==
    /\ Type[n] = "ElementNode"
    /\ Len(Children(n)) >= 2
    /\ Type[Children(n)[1]] = "ElementNode"
    /\ Type[Children(n)[2]] = "TextNode"

C7_SecondTextIgnored ==
    Done("TextContent") /\ ElementThenText(node) => retStr = EmptyString

(* C7 as amended: TextContent on such an element returns the second        *)
(* child's text without its leading and trailing spaces, tabs and          *)
(* newlines.                                                               *)

C7_SecondTextReturned ==
    Done("TextContent") /\ ElementThenText(node) =>
        IsTrimOf(retStr, Data[Children(node)[2]], {" ", "\t", "\n"})

\* the second child's text comes back
C7_Witness ==
    /\ Done("TextContent") /\ ElementThenText(node)
    /\ retStr # EmptyString

-----------------------------------------------------------------------------
(* C8: TextContent strips spaces, tabs, newlines and carriage returns in   *)
(* both paths: on a text node from the node's data, on another node from   *)
(* the data of its first text child; with no text child it returns "".     *)

FirstTextChild(n) ==
    LET cs == Children(n)
    IN  cs[Min({i \in DOMAIN cs : Type[cs[i]] = "TextNode"})]

HasTextChild(n) == \E c \in ChildSet(n) : Type[c] = "TextNode"

C8_SameWhitespaceSet ==
    Done("TextContent") =>
        IF Type[node] = "TextNode" THEN IsTrimOf(retStr, Data[node], Whitespace)
        ELSE IF HasTextChild(node)
             THEN IsTrimOf(retStr, Data[FirstTextChild(node)], Whitespace)
             ELSE retStr = EmptyString

-----------------------------------------------------------------------------
(* C9: AllWithTagR(n, t) is exactly the elements strictly below n with tag *)
(* t, each once, in document pre-order; AllWithTag(n, t) is the immediate  *)
(* element children of n with tag t in sibling order.                      *)

C9_AllWithTagExact ==
    /\ Done("AllWithTagR") =>
          /\ Range(retNodes) = TagMatches(node, name, TRUE)
          /\ IsInjective(retNodes)
          /\ \A i, j \in DOMAIN retNodes : i < j => Before(retNodes[i], retNodes[j])
    /\ Done("AllWithTag") =>
          /\ Range(retNodes) = TagMatches(node, name, FALSE)
          /\ IsInjective(retNodes)
          /\ \A i, j \in DOMAIN retNodes :
                i < j => retNodes[i] \in EarlierSiblings(retNodes[j])

\* a parent, then its descendant, then the parent's later sibling
C9_Witness ==
    /\ Done("AllWithTagR")
    /\ Len(retNodes) >= 3
    /\ retNodes[2] \in Descendants(retNodes[1])
    /\ retNodes[3] \notin Descendants(retNodes[1])

-----------------------------------------------------------------------------
(* C10: FirstWithTagR(n, s) is a node iff AllWithTagR(n, s) is not empty,  *)
(* and is then one of its members; FirstWithClassNameR(n, s) is a node iff *)
(* AllWithClassNameR(n, s) holds a node other than n, and is then one of   *)
(* its members.  It need not be the first member.                          *)

C10_FirstAgreesWithAll ==
    /\ Done("FirstWithTagR") =>
          /\ retNode # NULL <=> Len(AllWithTagR(node, name)) > 0
          /\ retNode # NULL => retNode \in Range(AllWithTagR(node, name))
    /\ Done("FirstWithClassNameR") =>
          /\ retNode # NULL <=> Range(AllWithClassNameR(node, name)) \ {node} # {}
          /\ retNode # NULL => retNode \in Range(AllWithClassNameR(node, name))

\* the first match is not the head of the all-match sequence
C10_Witness ==
    /\ Done("FirstWithTagR")
    /\ retNode # NULL
    /\ retNode # AllWithTagR(node, name)[1]

====
